---- MODULE Spec2Model ----
(***************************************************************************)
(* commute_check.py: one scheduled run of main() after another.  Each run   *)
(* checks the required settings, asks the routing provider for the route    *)
(* summary, decides whether the delay is significant, and sends at most     *)
(* one email per day, remembered in STATE_DIR/last_alert_date.txt.          *)
(***************************************************************************)
EXTENDS Integers, Sequences, FiniteSets, TLC

(* ----------------------------- bounds ---------------------------------- *)

\* days of January 2024 the wall clock passes through
MaxDay == 3
\* date keys handed to the two marker helpers when they are called directly
MaxKey == 5

(* ------------------------ program constants ---------------------------- *)

DefaultThresholdMin == 15
DefaultThresholdPct == 30
SecondsPerMinute == 60
HttpErrorStatus == 400
\* binary64: 52 fraction bits, held as FracLimbs limbs of LimbBits bits
LimbBits == 13
FracLimbs == 4

(* ----------------------- optional values ------------------------------- *)
\* dict.get / os.getenv: an absent key is <<>>, a present value v is <<v>>

Absent == <<>>

Some(v) == <<v>>

Get(opt, default) == IF opt = Absent THEN default ELSE opt[1]

\* Python truthiness of os.getenv(k): None and "" are falsy
Truthy(opt) == opt # Absent /\ opt[1] # ""

Max(a, b) == IF a >= b THEN a ELSE b

\* Python `a or b` on integers
IntOr(a, b) == IF a # 0 THEN a ELSE b

(* ------------------ IEEE-754 binary64 arithmetic ------------------------ *)
\* A non-zero float is [frac, exp] with value 1.frac * 2^exp: frac is the
\* 52-bit fraction field as four 13-bit limbs, most significant first.
\* Zero has frac = <<>>.  Only non-negative values occur.

FloatZero == [frac |-> <<>>, exp |-> 0]

RECURSIVE Pow2(_)
Pow2(k) == IF k <= 0 THEN 1 ELSE 2 * Pow2(k - 1)

LimbBase == Pow2(LimbBits)

Front(s) == SubSeq(s, 1, Len(s) - 1)

RECURSIVE IncLimbs(_)
IncLimbs(s) ==
    IF s[Len(s)] = LimbBase - 1 THEN IncLimbs(Front(s)) \o <<0>>
    ELSE Front(s) \o <<s[Len(s)] + 1>>

\* round-to-nearest, ties-to-even: guard is the first bit below the
\* fraction, sticky says that a non-zero tail lies below the guard bit
RoundNearestEven(frac, exp, guard, sticky) ==
    LET up == guard /\ (sticky \/ frac[Len(frac)] % 2 = 1) IN
    IF ~up THEN [frac |-> frac, exp |-> exp]
    ELSE IF \A i \in 1..Len(frac) : frac[i] = LimbBase - 1
         THEN [frac |-> [i \in 1..Len(frac) |-> 0], exp |-> exp + 1]
         ELSE [frac |-> IncLimbs(frac), exp |-> exp]

\* scale num/den into [1, 2): the result <<num, den, e>> has
\* den <= num < 2*den and the quotient is (num/den) * 2^e
RECURSIVE NormQuot(_, _, _)
NormQuot(num, den, e) ==
    IF num < den THEN NormQuot(2 * num, den, e - 1)
    ELSE IF num >= 2 * den THEN NormQuot(num, 2 * den, e + 1)
    ELSE <<num, den, e>>

\* the next k limbs of the quotient r/den (r < den), by long division
RECURSIVE DivLimbs(_, _, _)
DivLimbs(r, den, k) ==
    IF k = 0 THEN <<>>
    ELSE <<(r * LimbBase) \div den>> \o DivLimbs((r * LimbBase) % den, den, k - 1)

RECURSIVE DivRem(_, _, _)
DivRem(r, den, k) ==
    IF k = 0 THEN r ELSE DivRem((r * LimbBase) % den, den, k - 1)

\* Python a / b on integers 0 <= a, 0 < b: the correctly rounded quotient
FloatDiv(a, b) ==
    IF a = 0 THEN FloatZero
    ELSE LET n     == NormQuot(a, b, 0)
             r     == n[1] - n[2]
             rem   == DivRem(r, n[2], FracLimbs)
             guard == 2 * rem >= n[2]
             rest  == IF guard THEN 2 * rem - n[2] ELSE 2 * rem
         IN  RoundNearestEven(DivLimbs(r, n[2], FracLimbs), n[3], guard, rest # 0)

\* limbs * c + carry, as <<carry out>> \o limbs
RECURSIVE MulLimbs(_, _, _)
MulLimbs(s, c, carry) ==
    IF s = <<>> THEN <<carry>>
    ELSE LET v == s[Len(s)] * c + carry
         IN  MulLimbs(Front(s), c, v \div LimbBase) \o <<v % LimbBase>>

RECURSIVE Log2Floor(_)
Log2Floor(n) == IF n < 2 THEN 0 ELSE 1 + Log2Floor(n \div 2)

\* the limbs shifted right by k < LimbBits bits, `into` entering at the top
RECURSIVE ShiftLimbs(_, _, _)
ShiftLimbs(s, k, into) ==
    IF s = <<>> THEN <<>>
    ELSE <<into * Pow2(LimbBits - k) + s[1] \div Pow2(k)>>
            \o ShiftLimbs(Tail(s), k, s[1] % Pow2(k))

\* f * float(c) for a float f and an integer 0 < c < LimbBase
FloatMulInt(f, c) ==
    IF f.frac = <<>> THEN FloatZero
    ELSE LET p     == MulLimbs(f.frac, c, 0)
             top   == c + p[1]
             k     == Log2Floor(top)
             low   == Tail(p)
             out   == low[Len(low)] % Pow2(k)
             guard == k > 0 /\ out >= Pow2(k - 1)
             rest  == IF k > 0 THEN out % Pow2(k - 1) ELSE 0
         IN  RoundNearestEven(ShiftLimbs(low, k, top % Pow2(k)), f.exp + k,
                              guard, rest # 0)

\* the top k bits of a fraction
RECURSIVE TopBits(_, _)
TopBits(s, k) ==
    IF k <= 0 \/ s = <<>> THEN 0
    ELSE IF k >= LimbBits
         THEN s[1] * Pow2(k - LimbBits) + TopBits(Tail(s), k - LimbBits)
         ELSE s[1] \div Pow2(LimbBits - k)

\* the bits of a fraction below its top k bits are all zero
RECURSIVE LowBitsZero(_, _)
LowBitsZero(s, k) ==
    IF s = <<>> THEN TRUE
    ELSE IF k >= LimbBits THEN LowBitsZero(Tail(s), k - LimbBits)
    ELSE /\ s[1] % Pow2(LimbBits - Max(k, 0)) = 0
         /\ LowBitsZero(Tail(s), 0)

\* integer part of a float in [0, 2^31)
FloatFloor(f) ==
    IF f.frac = <<>> \/ f.exp < 0 THEN 0
    ELSE Pow2(f.exp) + TopBits(f.frac, f.exp)

FloatIsIntegral(f) ==
    \/ f.frac = <<>>
    \/ f.exp >= 0 /\ LowBitsZero(f.frac, f.exp)

\* math.ceil
FloatCeil(f) == IF FloatIsIntegral(f) THEN FloatFloor(f) ELSE FloatFloor(f) + 1

\* f >= float(t) for an integer t
FloatGeInt(f, t) == FloatFloor(f) >= t

(* ------------------------------ text ----------------------------------- *)
\* a string is a sequence of one-character strings

Whitespace == {" ", "\t", "\n", "\r"}

RECURSIVE lstrip(_)
lstrip(s) ==
    IF s # <<>> /\ s[1] \in Whitespace THEN lstrip(Tail(s)) ELSE s

RECURSIVE rstrip(_)
rstrip(s) ==
    IF s # <<>> /\ s[Len(s)] \in Whitespace THEN rstrip(Front(s)) ELSE s

\* str.strip()
strip(s) == rstrip(lstrip(s))

DigitChars == <<"0", "1", "2", "3", "4", "5", "6", "7", "8", "9">>

DigitValue(c) == CHOOSE d \in 0..9 : DigitChars[d + 1] = c

\* int(s) of a string of decimal digits
RECURSIVE StrToInt(_)
StrToInt(s) ==
    IF s = <<>> THEN 0 ELSE 10 * StrToInt(Front(s)) + DigitValue(s[Len(s)])

\* %d / %m: two digits, zero padded
Pad2(n) == <<DigitChars[(n \div 10) + 1], DigitChars[(n % 10) + 1]>>

\* datetime.strftime("%Y-%m-%d"); the clock is a day of January 2024
strftime(day) == <<"2", "0", "2", "4", "-">> \o Pad2(1) \o <<"-">> \o Pad2(day)

(* --------------------------- marker file ------------------------------- *)
\* STATE_DIR/last_alert_date.txt: [exists, text]

NoFile == [exists |-> FALSE, text |-> <<>>]

File(text) == [exists |-> TRUE, text |-> text]

\* the comparison inverted
already_alerted_today_inverted(file, today_key) ==
    IF ~file.exists THEN FALSE ELSE strip(file.text) # today_key

already_alerted_today(file, today_key) ==
    IF ~file.exists THEN FALSE ELSE strip(file.text) = today_key

\* the file opened in mode "a"
mark_alerted_today_append(file, today_key) == File(file.text \o today_key)

\* open(path, "w") truncates, then the key is written
mark_alerted_today(file, today_key) == File(today_key)

(* -------------------------- route fetcher ------------------------------ *)
\* data is the JSON body: [routes], routes absent or a list of routes, a
\* route is [summary], a summary is [travel, noTraffic, delay] of optional
\* integers (travelTimeInSeconds, noTrafficTravelTimeInSeconds,
\* trafficDelayInSeconds)

\* Response.raise_for_status() / the status test of mailjet_send
IsHttpError(status) == status >= HttpErrorStatus

EmptySummary == [travel |-> Absent, noTraffic |-> Absent, delay |-> Absent]

\* line 47 without max(0, ...)
tomtom_route_summary_unclamped(data) ==
    LET routes == Get(data.routes, <<>>) IN
    IF routes = <<>>
    THEN [ok |-> FALSE, reason |-> "No routes returned", raw |-> data]
    ELSE LET summary    == Get(routes[1].summary, EmptySummary)
             travel     == Get(summary.travel, 0)
             no_traffic == Get(summary.noTraffic, 0)
             delay      == Get(summary.delay,
                               Max(0, travel - IntOr(no_traffic, travel)))
         IN  IF travel <= 0
             THEN [ok |-> FALSE, reason |-> "Invalid travel time in response",
                   raw |-> data]
             ELSE [ok |-> TRUE,
                   travel_sec |-> travel,
                   no_traffic_sec |-> IF no_traffic <= 0 THEN travel ELSE no_traffic,
                   delay_sec |-> delay]

\* line 36 with the operands of the subtraction swapped
tomtom_route_summary_swapped(data) ==
    LET routes == Get(data.routes, <<>>) IN
    IF routes = <<>>
    THEN [ok |-> FALSE, reason |-> "No routes returned", raw |-> data]
    ELSE LET summary    == Get(routes[1].summary, EmptySummary)
             travel     == Get(summary.travel, 0)
             no_traffic == Get(summary.noTraffic, 0)
             delay      == Get(summary.delay,
                               Max(0, IntOr(no_traffic, travel) - travel))
         IN  IF travel <= 0
             THEN [ok |-> FALSE, reason |-> "Invalid travel time in response",
                   raw |-> data]
             ELSE [ok |-> TRUE,
                   travel_sec |-> travel,
                   no_traffic_sec |-> IF no_traffic <= 0 THEN travel ELSE no_traffic,
                   delay_sec |-> Max(0, delay)]

\* line 38 with < instead of <=
tomtom_route_summary_zero_ok(data) ==
    LET routes == Get(data.routes, <<>>) IN
    IF routes = <<>>
    THEN [ok |-> FALSE, reason |-> "No routes returned", raw |-> data]
    ELSE LET summary    == Get(routes[1].summary, EmptySummary)
             travel     == Get(summary.travel, 0)
             no_traffic == Get(summary.noTraffic, 0)
             delay      == Get(summary.delay,
                               Max(0, travel - IntOr(no_traffic, travel)))
         IN  IF travel < 0
             THEN [ok |-> FALSE, reason |-> "Invalid travel time in response",
                   raw |-> data]
             ELSE [ok |-> TRUE,
                   travel_sec |-> travel,
                   no_traffic_sec |-> IF no_traffic <= 0 THEN travel ELSE no_traffic,
                   delay_sec |-> Max(0, delay)]

tomtom_route_summary(data) ==
    LET routes == Get(data.routes, <<>>) IN
    IF routes = <<>>
    THEN [ok |-> FALSE, reason |-> "No routes returned", raw |-> data]
    ELSE LET summary    == Get(routes[1].summary, EmptySummary)
             travel     == Get(summary.travel, 0)
             no_traffic == Get(summary.noTraffic, 0)
             delay      == Get(summary.delay,
                               Max(0, travel - IntOr(no_traffic, travel)))
         IN  IF travel <= 0
             THEN [ok |-> FALSE, reason |-> "Invalid travel time in response",
                   raw |-> data]
             ELSE [ok |-> TRUE,
                   travel_sec |-> travel,
                   no_traffic_sec |-> IF no_traffic <= 0 THEN travel ELSE no_traffic,
                   delay_sec |-> Max(0, delay)]

(* ----------------------------- notifier -------------------------------- *)

\* the status test written with > instead of >=
mailjet_send_strict(status) == IF status > HttpErrorStatus THEN "raise" ELSE "return"

mailjet_send(status) == IF IsHttpError(status) THEN "raise" ELSE "return"

(* --------------------------- alert decider ----------------------------- *)

\* math.ceil(sec / 60)
CeilMinutes(sec) == FloatCeil(FloatDiv(sec, SecondsPerMinute))

delay_min_of(delay) == IF delay > 0 THEN CeilMinutes(delay) ELSE 0

\* (delay / no_traffic) * 100.0 if no_traffic else 0.0
delay_pct_of(delay, no_traffic) ==
    IF no_traffic # 0 THEN FloatMulInt(FloatDiv(delay, no_traffic), 100)
    ELSE FloatZero

is_bad_of(delay, no_traffic, thresh_min, thresh_pct) ==
    \/ delay_min_of(delay) >= thresh_min
    \/ FloatGeInt(delay_pct_of(delay, no_traffic), thresh_pct)

(* ---------------------------- configuration ---------------------------- *)

required == <<"TOMTOM_API_KEY", "COMMUTE_ORIGIN_LAT", "COMMUTE_ORIGIN_LNG",
              "COMMUTE_DEST_LAT", "COMMUTE_DEST_LNG">>

Coordinates == {"COMMUTE_ORIGIN_LAT", "COMMUTE_ORIGIN_LNG",
                "COMMUTE_DEST_LAT", "COMMUTE_DEST_LNG"}

\* `os.getenv(k) is None` instead of `not os.getenv(k)`
MissingKeys_unset_only(env) == SelectSeq(required, LAMBDA k : env[k] = Absent)

\* [k for k in required if not os.getenv(k)]
MissingKeys(env) == SelectSeq(required, LAMBDA k : ~Truthy(env[k]))

\* float(s) raises ValueError unless s is a number
IsFloatLiteral(s) == s \in {"40.7", "-74.0"}

EmailKeys == {"MJ_APIKEY_PUBLIC", "MJ_APIKEY_PRIVATE", "EMAIL_TO", "EMAIL_FROM"}

\* the sender address left out of the test
CredsPresent_no_sender(env) ==
    /\ Truthy(env["MJ_APIKEY_PUBLIC"])
    /\ Truthy(env["MJ_APIKEY_PRIVATE"])
    /\ Truthy(env["EMAIL_TO"])

\* mj_pub and mj_priv and email_to and email_from
CredsPresent(env) ==
    /\ Truthy(env["MJ_APIKEY_PUBLIC"])
    /\ Truthy(env["MJ_APIKEY_PRIVATE"])
    /\ Truthy(env["EMAIL_TO"])
    /\ Truthy(env["EMAIL_FROM"])

\* int(os.getenv(name, default)): the default applies to an unset variable
ThresholdOf(opt, default) == IF opt = Absent THEN default ELSE StrToInt(opt[1])

(* ------------------------------ inputs --------------------------------- *)

GoodRequiredEnv ==
    [k \in {required[i] : i \in 1..Len(required)} |->
        IF k \in Coordinates THEN Some("40.7") ELSE Some("key")]

\* the required settings: all set, or one of them unset, empty or (a
\* coordinate) not a number, or none of them set
RequiredEnvs ==
    {GoodRequiredEnv}
    \cup {[GoodRequiredEnv EXCEPT ![k] = v] :
            k \in DOMAIN GoodRequiredEnv, v \in {Absent, Some("")}}
    \cup {[GoodRequiredEnv EXCEPT ![k] = Some("north")] : k \in Coordinates}
    \cup {[k \in DOMAIN GoodRequiredEnv |-> Absent]}

\* DELAY_THRESHOLD_MIN and DELAY_THRESHOLD_PCT: unset, or a decimal string
ThresholdMinEnvs == {Absent, Some(<<"1", "0">>)}
ThresholdPctEnvs == {Absent, Some(<<"2", "9">>)}

GoodEmailEnv == [k \in EmailKeys |-> Some("set")]

EmailEnvs ==
    {GoodEmailEnv}
    \cup {[GoodEmailEnv EXCEPT ![k] = v] : k \in EmailKeys, v \in {Absent, Some("")}}
    \cup {[k \in EmailKeys |-> Absent]}

HttpStatuses == {200, 400, 500}

TravelValues    == {Absent, Some(-5), Some(0), Some(129), Some(1800)}
NoTrafficValues == {Absent, Some(-60), Some(0), Some(100), Some(1200), Some(4000)}
DelayValues     == {Absent, Some(-30), Some(0), Some(29), Some(600), Some(900)}

Summaries == [travel : TravelValues, noTraffic : NoTrafficValues, delay : DelayValues]

Responses ==
    {[routes |-> Absent], [routes |-> Some(<<>>)],
     [routes |-> Some(<<[summary |-> Absent]>>)]}
    \cup {[routes |-> Some(<<[summary |-> Some(sm)]>>)] : sm \in Summaries}

Days == 1..MaxDay

\* what the state directory may hold before the first run
PriorMarkers ==
    {NoFile, File(<<>>), File(strftime(1) \o <<"\n">>),
     File(<<"2", "0", "2", "3", "-", "1", "2", "-", "3", "1">>)}

(* ------------------------------- state --------------------------------- *)

VARIABLES
    pc,               \* where main() stands; "done" after it returned or raised
    now,              \* the wall clock's day
    marker,           \* last_alert_date.txt
    state_dir,        \* whether the state directory exists
    env,              \* the required settings, as read at line 96
    delay_thresh_min, \* locals of main(), Absent until assigned
    delay_thresh_pct,
    data,             \* the routing provider's JSON body
    tt,
    today_key,
    alerted,          \* what already_alerted_today returned
    email_env,        \* the four email settings, as read at lines 143-146
    mail_status,      \* status of the email provider's response
    exit_code,        \* 0 or 2 returned by main(), 1 for an uncaught exception
    route_calls,      \* requests.get calls of this run
    mail_calls,       \* requests.post calls of this run
    marker_reads,     \* already_alerted_today calls of this run
    marker_writes,    \* mark_alerted_today calls of this run
    marker_at_start,  \* the marker when this run began
    sent_count,       \* successful sends per date key, over all runs
    last_marked       \* the key of the last mark_alerted_today call

locals == <<env, delay_thresh_min, delay_thresh_pct, data, tt, today_key,
            alerted, email_env, mail_status, exit_code>>

counters == <<route_calls, mail_calls, marker_reads, marker_writes>>

vars == <<pc, now, marker, state_dir, locals, counters, marker_at_start,
          sent_count, last_marked>>

DateKeys == {strftime(d) : d \in Days}

Init ==
    /\ pc = "start"
    /\ now = 1
    /\ marker \in PriorMarkers
    /\ state_dir \in {b \in BOOLEAN : marker.exists => b}
    /\ env = Absent
    /\ delay_thresh_min = Absent
    /\ delay_thresh_pct = Absent
    /\ data = Absent
    /\ tt = Absent
    /\ today_key = Absent
    /\ alerted = Absent
    /\ email_env = Absent
    /\ mail_status = Absent
    /\ exit_code = Absent
    /\ route_calls = 0
    /\ mail_calls = 0
    /\ marker_reads = 0
    /\ marker_writes = 0
    /\ marker_at_start = marker
    /\ sent_count = [k \in DateKeys |-> 0]
    /\ last_marked = Absent

\* main() returns code, or (code 1) dies of an uncaught exception
Exit(code) == pc' = "done" /\ exit_code' = Some(code)

(* ------------------------------ main() --------------------------------- *)

\* lines 91-99
CheckRequired ==
    /\ pc = "start"
    /\ \E e \in RequiredEnvs :
        /\ env' = Some(e)
        /\ IF MissingKeys(e) # <<>>
           THEN Exit(2)
           ELSE pc' = "parse" /\ UNCHANGED exit_code
    /\ UNCHANGED <<alerted, now, marker, state_dir, delay_thresh_min, delay_thresh_pct,
                   data, tt, today_key, email_env, mail_status, counters,
                   marker_at_start, sent_count, last_marked>>

\* lines 101-105
ParseConfig ==
    /\ pc = "parse"
    /\ IF \E k \in Coordinates : ~IsFloatLiteral(env[1][k][1])
       THEN /\ Exit(1)
            /\ UNCHANGED <<delay_thresh_min, delay_thresh_pct>>
       ELSE /\ \E m \in ThresholdMinEnvs :
                 delay_thresh_min' = Some(ThresholdOf(m, DefaultThresholdMin))
            /\ \E p \in ThresholdPctEnvs :
                 delay_thresh_pct' = Some(ThresholdOf(p, DefaultThresholdPct))
            /\ pc' = "route"
            /\ UNCHANGED exit_code
    /\ UNCHANGED <<alerted, now, marker, state_dir, env, data, tt, today_key, email_env,
                   mail_status, counters, marker_at_start, sent_count, last_marked>>

\* lines 107-110, with lines 25-48
FetchRoute ==
    /\ pc = "route"
    /\ route_calls' = route_calls + 1
    /\ \E status \in HttpStatuses :
        IF IsHttpError(status)
        THEN Exit(1) /\ UNCHANGED <<data, tt>>
        ELSE \E d \in Responses :
                /\ data' = Some(d)
                /\ tt' = Some(tomtom_route_summary(d))
                /\ IF ~tt'[1].ok
                   THEN Exit(0)
                   ELSE pc' = "decide" /\ UNCHANGED exit_code
    /\ UNCHANGED <<alerted, now, marker, state_dir, env, delay_thresh_min, delay_thresh_pct,
                   today_key, email_env, mail_status, mail_calls, marker_reads,
                   marker_writes, marker_at_start, sent_count, last_marked>>

\* lines 112-133
Decide ==
    /\ pc = "decide"
    /\ IF is_bad_of(tt[1].delay_sec, tt[1].no_traffic_sec,
                    delay_thresh_min[1], delay_thresh_pct[1])
       THEN pc' = "dedupe" /\ UNCHANGED exit_code
       ELSE Exit(0)
    /\ UNCHANGED <<alerted, now, marker, state_dir, env, delay_thresh_min, delay_thresh_pct,
                   data, tt, today_key, email_env, mail_status, counters,
                   marker_at_start, sent_count, last_marked>>

\* lines 135-140, with lines 74-80
DedupeCheck ==
    /\ pc = "dedupe"
    /\ today_key' = strftime(now)
    /\ state_dir' = TRUE
    /\ marker_reads' = marker_reads + 1
    /\ alerted' = Some(already_alerted_today(marker, today_key'))
    /\ IF alerted'[1]
       THEN Exit(0)
       ELSE pc' = "creds" /\ UNCHANGED exit_code
    /\ UNCHANGED <<now, marker, env, delay_thresh_min, delay_thresh_pct, data, tt,
                   email_env, mail_status, route_calls, mail_calls, marker_writes,
                   marker_at_start, sent_count, last_marked>>

\* lines 142-150
CheckCreds ==
    /\ pc = "creds"
    /\ \E e \in EmailEnvs :
        /\ email_env' = Some(e)
        /\ IF ~CredsPresent(e)
           THEN Exit(0)
           ELSE pc' = "send" /\ UNCHANGED exit_code
    /\ UNCHANGED <<alerted, now, marker, state_dir, env, delay_thresh_min, delay_thresh_pct,
                   data, tt, today_key, mail_status, counters, marker_at_start,
                   sent_count, last_marked>>

\* lines 152-160, with lines 51-71
Send ==
    /\ pc = "send"
    /\ mail_calls' = mail_calls + 1
    /\ \E status \in HttpStatuses :
        /\ mail_status' = Some(status)
        /\ IF mailjet_send(status) = "raise"
           THEN Exit(1) /\ UNCHANGED sent_count
           ELSE /\ pc' = "mark"
                /\ sent_count' = [sent_count EXCEPT
                                    ![today_key] = IF @ < 2 THEN @ + 1 ELSE @]
                /\ UNCHANGED exit_code
    /\ UNCHANGED <<alerted, now, marker, state_dir, env, delay_thresh_min, delay_thresh_pct,
                   data, tt, today_key, email_env, route_calls, marker_reads,
                   marker_writes, marker_at_start, last_marked>>

\* lines 161-163, with lines 83-87
Mark ==
    /\ pc = "mark"
    /\ marker' = mark_alerted_today(marker, today_key)
    /\ state_dir' = TRUE
    /\ marker_writes' = marker_writes + 1
    /\ last_marked' = Some(today_key)
    /\ Exit(0)
    /\ UNCHANGED <<alerted, now, env, delay_thresh_min, delay_thresh_pct, data, tt,
                   today_key, email_env, mail_status, route_calls, mail_calls,
                   marker_reads, marker_at_start, sent_count>>

\* lines 166-167: the process ends; the scheduler starts the next one
NextRun ==
    /\ pc = "done"
    /\ pc' = "start"
    /\ env' = Absent
    /\ delay_thresh_min' = Absent
    /\ delay_thresh_pct' = Absent
    /\ data' = Absent
    /\ tt' = Absent
    /\ today_key' = Absent
    /\ alerted' = Absent
    /\ email_env' = Absent
    /\ mail_status' = Absent
    /\ exit_code' = Absent
    /\ route_calls' = 0
    /\ mail_calls' = 0
    /\ marker_reads' = 0
    /\ marker_writes' = 0
    /\ marker_at_start' = marker
    /\ UNCHANGED <<now, marker, state_dir, sent_count, last_marked>>

\* line 136: datetime.now() moves on to the next day; the local date is
\* taken never to go back from one run to the next
Tick ==
    /\ now < MaxDay
    /\ now' = now + 1
    /\ UNCHANGED <<pc, marker, state_dir, locals, counters, marker_at_start,
                   sent_count, last_marked>>

Next ==
    \/ CheckRequired
    \/ ParseConfig
    \/ FetchRoute
    \/ Decide
    \/ DedupeCheck
    \/ CheckCreds
    \/ Send
    \/ Mark
    \/ NextRun
    \/ Tick

Spec == Init /\ [][Next]_vars

(* ----------------- the two marker helpers on their own ------------------ *)
\* already_alerted_today and mark_alerted_today called directly, in any
\* order and with any date key, on whatever the state directory holds

HelperKeys == {strftime(d) : d \in 1..MaxKey}

\* lines 74-80
CallAlreadyAlerted ==
    /\ \E k \in HelperKeys :
        /\ today_key' = k
        /\ alerted' = Some(already_alerted_today(marker, k))
    /\ pc' = "checked"
    /\ state_dir' = TRUE
    /\ marker_reads' = 1
    /\ marker_writes' = 0
    /\ marker_at_start' = marker
    /\ UNCHANGED <<now, marker, env, delay_thresh_min, delay_thresh_pct, data, tt,
                   email_env, mail_status, exit_code, route_calls, mail_calls,
                   sent_count, last_marked>>

\* lines 83-87
CallMarkAlerted ==
    /\ \E k \in HelperKeys :
        /\ today_key' = k
        /\ marker' = mark_alerted_today(marker, k)
        /\ last_marked' = Some(k)
    /\ pc' = "marked"
    /\ state_dir' = TRUE
    /\ marker_reads' = 0
    /\ marker_writes' = 1
    /\ marker_at_start' = marker
    /\ UNCHANGED <<now, alerted, env, delay_thresh_min, delay_thresh_pct, data, tt,
                   email_env, mail_status, exit_code, route_calls, mail_calls,
                   sent_count>>

NextHelpers == CallAlreadyAlerted \/ CallMarkAlerted

SpecHelpers == Init /\ [][NextHelpers]_vars

(* ------------------------------ claims --------------------------------- *)

C2_MarkerOnlyAfterSend ==
    /\ marker_writes <= 1
    /\ IF marker_writes = 1
       THEN /\ marker = File(today_key)
            /\ mail_calls = 1
            /\ mail_status # Absent
            /\ mail_status[1] < HttpErrorStatus
       ELSE marker = marker_at_start

\* a run has overwritten the marker of an earlier day
C2_Witness ==
    /\ pc = "done"
    /\ marker_writes = 1
    /\ marker_at_start.exists
    /\ marker_at_start.text \in DateKeys
    /\ marker # marker_at_start

AnyEmailSettingMissing(e) == \E k \in EmailKeys : e[k] = Absent \/ e[k] = Some("")

\* C3: a run that came to the email settings (verdict true, marker not
\* today) and found one of the four missing or empty has ended with exit
\* code 0, no send call and no marker write
C3_MissingCredsSkipSend ==
    (email_env # Absent /\ AnyEmailSettingMissing(email_env[1])) =>
        /\ pc = "done"
        /\ exit_code = Some(0)
        /\ mail_calls = 0
        /\ marker_writes = 0
        /\ marker = marker_at_start

\* exactly the sender address is missing
C3_Witness ==
    /\ email_env # Absent
    /\ email_env[1]["EMAIL_FROM"] \in {Absent, Some("")}
    /\ \A k \in EmailKeys \ {"EMAIL_FROM"} : email_env[1][k] = Some("set")
    /\ alerted = Some(FALSE)
    /\ pc = "done"

AnyRequiredMissing(e) ==
    \E k \in {"TOMTOM_API_KEY"} \cup Coordinates : e[k] = Absent \/ e[k] = Some("")

\* C4: with a required setting missing or empty the run ends at once with
\* exit code 2, no routing request, no email send and the marker untouched;
\* with none missing the exit code is never 2
C4_MissingConfigExit2 ==
    env # Absent =>
        IF AnyRequiredMissing(env[1])
        THEN /\ pc = "done"
             /\ exit_code = Some(2)
             /\ route_calls = 0
             /\ mail_calls = 0
             /\ marker_reads = 0
             /\ marker_writes = 0
             /\ marker = marker_at_start
        ELSE exit_code # Some(2)

\* one coordinate is set to the empty string
C4_Witness ==
    /\ env # Absent
    /\ env[1]["COMMUTE_DEST_LNG"] = Some("")
    /\ env[1]["TOMTOM_API_KEY"] = Some("key")
    /\ exit_code = Some(2)

NumericFields == {"travel_sec", "no_traffic_sec", "delay_sec"}

\* C5: a summary with ok = true has travel_sec > 0, no_traffic_sec > 0 and
\* delay_sec >= 0; one with ok = false has a reason and none of the three
\* numeric fields
C5_SummarySane ==
    tt # Absent =>
        IF tt[1].ok
        THEN /\ NumericFields \subseteq DOMAIN tt[1]
             /\ tt[1].travel_sec > 0
             /\ tt[1].no_traffic_sec > 0
             /\ tt[1].delay_sec >= 0
        ELSE /\ "reason" \in DOMAIN tt[1]
             /\ tt[1].reason # ""
             /\ NumericFields \cap DOMAIN tt[1] = {}

\* the first summary of the response body (only asked for when there is one)
FirstSummary == data[1].routes[1][1].summary[1]

HasSummary ==
    /\ data # Absent
    /\ data[1].routes # Absent
    /\ data[1].routes[1] # <<>>
    /\ data[1].routes[1][1].summary # Absent

\* ok = true for a response with a negative delay and a negative
\* traffic-free time
C5_Witness ==
    /\ tt # Absent
    /\ tt[1].ok
    /\ HasSummary
    /\ FirstSummary.delay = Some(-30)
    /\ FirstSummary.noTraffic = Some(-60)

\* the claim's delay_min and delay_pct, in exact arithmetic
ExactDelayMin(delay) ==
    IF delay = 0 THEN 0 ELSE (delay + SecondsPerMinute - 1) \div SecondsPerMinute

ExactVerdict(delay, no_traffic, thresh_min, thresh_pct) ==
    \/ ExactDelayMin(delay) >= thresh_min
    \/ delay * 100 >= thresh_pct * no_traffic

OnAlertPath == pc \in {"dedupe", "creds", "send", "mark"} \/ marker_reads > 0

\* C6: once the verdict is taken, the run is on the alert path exactly when
\* delay_min >= threshold_min or delay_pct >= threshold_pct, and otherwise
\* it has ended with exit code 0 without reading the marker or sending
C6_VerdictIsExactOr ==
    (tt # Absent /\ tt[1].ok /\ pc # "decide") =>
        LET alert == ExactVerdict(tt[1].delay_sec, tt[1].no_traffic_sec,
                                  delay_thresh_min[1], delay_thresh_pct[1])
        IN  /\ OnAlertPath <=> alert
            /\ ~alert => /\ pc = "done"
                         /\ exit_code = Some(0)
                         /\ marker_reads = 0
                         /\ mail_calls = 0

NoDelaySupplied == HasSummary /\ FirstSummary.delay = Absent

\* C7: with a positive travel time, a traffic-free time that is absent,
\* zero or negative, and no delay field, no_traffic_sec = travel_sec and
\* delay_sec = 0
C7_NonPositiveNoTraffic ==
    (/\ tt # Absent
     /\ NoDelaySupplied
     /\ FirstSummary.travel # Absent
     /\ FirstSummary.travel[1] > 0
     /\ FirstSummary.noTraffic = Absent \/ FirstSummary.noTraffic[1] <= 0) =>
        /\ tt[1].ok
        /\ tt[1].no_traffic_sec = tt[1].travel_sec
        /\ tt[1].delay_sec = 0

\* C8 as stated: with a positive travel time, any traffic-free time no
\* greater than it and no delay field, delay_sec = travel - traffic-free
C8_DelayIsDifference ==
    (/\ tt # Absent
     /\ NoDelaySupplied
     /\ FirstSummary.travel # Absent
     /\ FirstSummary.travel[1] > 0
     /\ FirstSummary.noTraffic # Absent
     /\ FirstSummary.noTraffic[1] <= FirstSummary.travel[1]) =>
        /\ tt[1].ok
        /\ tt[1].delay_sec = FirstSummary.travel[1] - FirstSummary.noTraffic[1]

\* C8 amended: with a positive travel time, a positive traffic-free time
\* no greater than it and no delay field, delay_sec = travel - traffic-free
C8_DelayIsDifferencePositive ==
    (/\ tt # Absent
     /\ NoDelaySupplied
     /\ FirstSummary.travel # Absent
     /\ FirstSummary.travel[1] > 0
     /\ FirstSummary.noTraffic # Absent
     /\ FirstSummary.noTraffic[1] > 0
     /\ FirstSummary.noTraffic[1] <= FirstSummary.travel[1]) =>
        /\ tt[1].ok
        /\ tt[1].delay_sec = FirstSummary.travel[1] - FirstSummary.noTraffic[1]

\* 1800 s with traffic, 1200 s without, no delay field
C8_Witness ==
    /\ tt # Absent
    /\ NoDelaySupplied
    /\ FirstSummary.travel = Some(1800)
    /\ FirstSummary.noTraffic = Some(1200)
    /\ tt[1].ok
    /\ tt[1].delay_sec = 600

NoRoutes == data # Absent /\ (data[1].routes = Absent \/ data[1].routes[1] = <<>>)

NonPositiveTravel ==
    HasSummary /\ FirstSummary.travel # Absent /\ FirstSummary.travel[1] <= 0

\* C9: a response without routes gives ok = false, "No routes returned", a
\* first route with a non-positive travel time gives ok = false, "Invalid
\* travel time in response", and either way the run has ended with exit
\* code 0 before the verdict, the marker and the email
C9_RoutingFailureExit0 ==
    /\ NoRoutes => ~tt[1].ok /\ tt[1].reason = "No routes returned"
    /\ NonPositiveTravel =>
          ~tt[1].ok /\ tt[1].reason = "Invalid travel time in response"
    /\ (NoRoutes \/ NonPositiveTravel) =>
          /\ pc = "done"
          /\ exit_code = Some(0)
          /\ marker_reads = 0
          /\ marker_writes = 0
          /\ mail_calls = 0
          /\ marker = marker_at_start

\* a travel time of 0
C9_Witness ==
    /\ HasSummary
    /\ FirstSummary.travel = Some(0)
    /\ pc = "done"
    /\ exit_code = Some(0)

\* C10: already_alerted_today leaves the marker as it was; it returns
\* false when there is no marker file, and once mark_alerted_today(d) has
\* been called it returns true for d' exactly when d' is the key of the
\* last such call
C10_DedupeRoundTrip ==
    pc = "checked" =>
        /\ marker = marker_at_start
        /\ ~marker.exists => alerted = Some(FALSE)
        /\ last_marked # Absent => alerted = Some(today_key = last_marked[1])

\* a marker written for another date, over what the directory held before,
\* does not stand for today
C10_Witness ==
    /\ pc = "checked"
    /\ last_marked # Absent
    /\ last_marked[1] # today_key
    /\ alerted = Some(FALSE)

====
